---- MODULE Spec2Model ----
(***************************************************************************)
(* Marketplace category page                                               *)
(* (frontend/src/app/apps/category/[category]/page.tsx).                   *)
(*                                                                         *)
(* One request is modelled: a caller (generateMetadata or CategoryPage)    *)
(* invokes getCategoryData, whose two fetches settle in any order, and the *)
(* caller then continues with the outcome.  The bucket derivation          *)
(* (getNewOrRecentApps, mostPopular, allApps) and shuffleArray are         *)
(* operators; Math.random is a nondeterministic choice of j in 0..i.       *)
(***************************************************************************)
EXTENDS Integers, Sequences, FiniteSets, TLC

\* ---------------------------------------------------------------- bounds
MaxLen == 7          \* longest category list handed to CategoryPage in SpecPage
MaxInstalls == 1     \* install counts range over 0..MaxInstalls
MaxFetched == 2      \* longest list the apps call resolves with in Spec
MaxShuffleLen == 4   \* longest array handed to shuffleArray in SpecShuffle

\* ------------------------------------------------------ program constants
NewCount == 4        \* zeroDownloads.length >= 4, slice(0, 4)
PopularCount == 6    \* categoryPlugins.length > 6, slice(0, 6)

\* ------------------------------------------------------------ data model
\* A Plugin: identifier and install count.  Identifiers are unique within a
\* fetched list; the identifier used here is the position in that list.
PluginListsOfLen(n) ==
    { [k \in 1..n |-> [id |-> k, installs |-> f[k]]] : f \in [1..n -> 0..MaxInstalls] }

PluginLists(maxLen) == UNION { PluginListsOfLen(n) : n \in 0..maxLen }

CategoryKeys == {"listed", "unlisted"}

\* categoryMetadata[category]: an entry for the keys the table lists,
\* undefined for every other key.
categoryMetadata == [c \in CategoryKeys |-> IF c = "listed" THEN "entry" ELSE "undefined"]

Min(a, b) == IF a < b THEN a ELSE b

\* Array.prototype.slice(start, end), 0-based and end-exclusive.
Slice(s, start, end) == SubSeq(s, start + 1, Min(end, Len(s)))

\* ----------------------------------------------------------------- sort
\* (a, b) => a.installs - b.installs
CompareAscending(a, b) == a.installs - b.installs

\* (a, b) => b.installs - a.installs
CompareDescendingSwapped(a, b) == a.installs - b.installs
CompareDescending(a, b) == b.installs - a.installs

\* Array.prototype.sort is stable: of two elements that compare equal, the
\* one at the lower index stays first.
TieBreakLaterFirst(i, j) == i > j
TieBreak(i, j) == i < j

\* Array.prototype.sort on a copy of s, where cmp[j][i] is the value the
\* compare function returns for (s[j], s[i]): the element at index i moves
\* to the position given by the number of elements ordered before it.
StableSort(s, cmp) ==
    LET n == Len(s)
        Before(j, i) == \/ cmp[j][i] < 0
                        \/ cmp[j][i] = 0 /\ TieBreak(j, i)
        rank == [i \in 1..n |-> Cardinality({ j \in 1..n : j # i /\ Before(j, i) }) + 1]
    IN  [p \in 1..n |-> s[CHOOSE i \in 1..n : rank[i] = p]]

\* [...plugins].sort((a, b) => a.installs - b.installs)
SortAscending(s) ==
    StableSort(s, [j \in 1..Len(s) |-> [i \in 1..Len(s) |-> CompareAscending(s[j], s[i])]])

\* [...categoryPlugins].sort((a, b) => b.installs - a.installs)
SortDescending(s) ==
    StableSort(s, [j \in 1..Len(s) |-> [i \in 1..Len(s) |-> CompareDescending(s[j], s[i])]])

\* -------------------------------------------------------------- shuffle
\* Math.floor(Math.random() * (i + 1)): any integer of 0..i.
RandomIndexExcludingSelf(i) == 0..(i - 1)
RandomIndex(i) == 0..i

\* The random choices of one shuffleArray call on an array of length n:
\* js[i] is the j drawn at loop index i, for i = n-1 down to 1.
RECURSIVE RandomChoicesUpTo(_)
RandomChoicesUpTo(k) ==
    IF k <= 0 THEN { <<>> }
    ELSE { Append(js, j) : js \in RandomChoicesUpTo(k - 1), j \in RandomIndex(k) }

RandomChoices(n) == RandomChoicesUpTo(n - 1)

\* [newArray[i], newArray[j]] = [newArray[j], newArray[i]], 0-based i and j.
Swap(a, i, j) == [a EXCEPT ![i + 1] = a[j + 1], ![j + 1] = a[i + 1]]

\* for (let i = newArray.length - 1; i > 0; i--) { swap(i, js[i]) }
RECURSIVE ShuffleLoop(_, _, _)
ShuffleLoop(newArray, i, js) ==
    IF i > 0 THEN ShuffleLoop(Swap(newArray, i, js[i]), i - 1, js) ELSE newArray

\* shuffleArray(array) under the random choices js; newArray = [...array].
ShuffleArray(array, js) == ShuffleLoop(array, Len(array) - 1, js)

\* The caller's array once shuffleArray has returned: the loop writes to
\* the copy newArray = [...array] only.
ArgumentAfterShuffleInPlace(array, js) == ShuffleLoop(array, Len(array) - 1, js)
ArgumentAfterShuffle(array, js) == array

\* ---------------------------------------------------- bucket derivation
IsZeroDownload(plugin) == plugin.installs = 0

\* plugins.filter((plugin) => plugin.installs === 0)
ZeroDownloadsUnfiltered(plugins) == plugins
ZeroDownloads(plugins) == SelectSeq(plugins, IsZeroDownload)

\* zeroDownloads.length >= 4
EnoughZeroDownloads(plugins) == Len(ZeroDownloads(plugins)) >= NewCount

\* [...plugins].sort((a, b) => a.installs - b.installs).slice(0, 4)
LowestInstallsFromTop(plugins) == Slice(SortDescending(plugins), 0, NewCount)
LowestInstalls(plugins) == Slice(SortAscending(plugins), 0, NewCount)

\* Every array shuffleArray(array) can return.
ShuffleOutcomes(array) == { ShuffleArray(array, js) : js \in RandomChoices(Len(array)) }

\* Every array getNewOrRecentApps(plugins) can return.
GetNewOrRecentAppsUnsliced(plugins) ==
    IF EnoughZeroDownloads(plugins)
    THEN ShuffleOutcomes(ZeroDownloads(plugins))
    ELSE ShuffleOutcomes(LowestInstalls(plugins))
GetNewOrRecentApps(plugins) ==
    IF EnoughZeroDownloads(plugins)
    THEN { Slice(shuffled, 0, NewCount) : shuffled \in ShuffleOutcomes(ZeroDownloads(plugins)) }
    ELSE ShuffleOutcomes(LowestInstalls(plugins))

\* categoryPlugins.length > 6 ? sorted descending, slice(0, 6) : []
MostPopularAtLeastSix(plugins) ==
    IF Len(plugins) >= PopularCount
    THEN Slice(SortDescending(plugins), 0, PopularCount)
    ELSE <<>>
MostPopular(plugins) ==
    IF Len(plugins) > PopularCount
    THEN Slice(SortDescending(plugins), 0, PopularCount)
    ELSE <<>>

\* [...categoryPlugins].sort((a, b) => b.installs - a.installs)
AllApps(plugins) == SortDescending(plugins)

\* newOrRecentApps.some((p) => p.installs === 0) ? 'New This Week' : 'Recently Added'
HeadingIfEvery(shown) ==
    IF \A k \in 1..Len(shown) : shown[k].installs = 0
    THEN "New This Week" ELSE "Recently Added"
Heading(shown) ==
    IF \E k \in 1..Len(shown) : shown[k].installs = 0
    THEN "New This Week" ELSE "Recently Added"

\* --------------------------------------------------------------- state
VARIABLES
    caller,          \* "generateMetadata" or "CategoryPage"
    category,        \* params.category
    pc,              \* where getCategoryData (or the shuffleArray call) stands
    appsPromise,     \* getAppsByCategory(category)
    fetchPromise,    \* fetch(community-plugin-stats.json)
    allPromise,      \* Promise.all([appsPromise, fetchPromise])
    firstFailure,    \* history: the failure that occurred first, "none" so far
    dataPromise,     \* the promise getCategoryData returned
    metadataPromise, \* the promise generateMetadata returned
    pagePromise,     \* the promise CategoryPage returned
    newOrRecentApps, \* CategoryPage's three buckets and the first heading
    mostPopular,
    allApps,
    heading,
    array,           \* shuffleArray's argument
    newArray         \* shuffleArray's return value

vars == << caller, category, pc, appsPromise, fetchPromise, allPromise, firstFailure,
           dataPromise, metadataPromise, pagePromise, newOrRecentApps, mostPopular,
           allApps, heading, array, newArray >>

Pending == [state |-> "pending"]
Fulfilled(v) == [state |-> "fulfilled", value |-> v]
Rejected(r) == [state |-> "rejected", reason |-> r]

pageVars == << pagePromise, newOrRecentApps, mostPopular, allApps, heading >>
shuffleVars == << array, newArray >>

NoBuckets ==
    /\ newOrRecentApps = << >>
    /\ mostPopular = << >>
    /\ allApps = << >>
    /\ heading = ""

\* --------------------------------------------------------- getCategoryData
\* Promise.all's reaction to one of its inputs settling: the first rejection
\* rejects it with that reason; the last fulfilment fulfils it.
PromiseAllInArrayOrder(all, settled, apps, stats) ==
    IF all.state # "pending" THEN all
    ELSE IF apps.state = "rejected" THEN Rejected(apps.reason)
    ELSE IF apps.state = "fulfilled" /\ stats.state = "rejected" THEN Rejected(stats.reason)
    ELSE IF apps.state = "fulfilled" /\ stats.state = "fulfilled"
         THEN Fulfilled(<< apps.value, stats.value >>)
    ELSE all
PromiseAll(all, settled, apps, stats) ==
    IF all.state # "pending" THEN all
    ELSE IF settled.state = "rejected" THEN Rejected(settled.reason)
    ELSE IF apps.state = "fulfilled" /\ stats.state = "fulfilled"
         THEN Fulfilled(<< apps.value, stats.value >>)
    ELSE all

\* const [categoryPlugins, statsResponse] = await Promise.all([...]): the
\* two calls are issued one after the other without awaiting in between.
GetCategoryDataCall ==
    /\ pc = "start"
    /\ pc' = "awaitAll"
    /\ appsPromise' = Pending
    /\ fetchPromise' = Pending
    /\ allPromise' = Pending
    /\ UNCHANGED << caller, category, firstFailure, dataPromise, metadataPromise,
                    pageVars, shuffleVars >>

\* One of the two inputs settled: Promise.all reacts, and getCategoryData
\* resumes from its await when Promise.all has settled.
InputSettled(settled, apps, stats) ==
    /\ appsPromise' = apps
    /\ fetchPromise' = stats
    /\ allPromise' = PromiseAll(allPromise, settled, apps, stats)
    /\ firstFailure' = IF firstFailure = "none" /\ settled.state = "rejected"
                       THEN settled.reason ELSE firstFailure
    /\ IF pc = "awaitAll" /\ allPromise'.state = "rejected"
       THEN pc' = "thrown" /\ dataPromise' = Rejected(allPromise'.reason)
       ELSE IF pc = "awaitAll" /\ allPromise'.state = "fulfilled"
       THEN pc' = "awaitJson" /\ UNCHANGED dataPromise
       ELSE UNCHANGED << pc, dataPromise >>
    /\ UNCHANGED << caller, category, metadataPromise, pageVars, shuffleVars >>

AppsFulfil ==
    /\ appsPromise = Pending
    /\ \E plugins \in PluginLists(MaxFetched) :
          InputSettled(Fulfilled(plugins), Fulfilled(plugins), fetchPromise)

AppsReject ==
    /\ appsPromise = Pending
    /\ InputSettled(Rejected("appsError"), Rejected("appsError"), fetchPromise)

\* fetch resolves with a response whose body is JSON text or is not.
FetchFulfil ==
    /\ fetchPromise = Pending
    /\ \E body \in {"json", "malformed"} :
          InputSettled(Fulfilled(body), appsPromise, Fulfilled(body))

FetchReject ==
    /\ fetchPromise = Pending
    /\ InputSettled(Rejected("fetchError"), appsPromise, Rejected("fetchError"))

\* const stats = (await statsResponse.json()) as PluginStat[];
\* return { categoryPlugins, stats };
StatsJson ==
    /\ pc = "awaitJson"
    /\ IF allPromise.value[2] = "json"
       THEN /\ pc' = "returned"
            /\ dataPromise' = Fulfilled([categoryPlugins |-> allPromise.value[1],
                                         stats |-> "stats"])
            /\ UNCHANGED firstFailure
       ELSE /\ pc' = "thrown"
            /\ dataPromise' = Rejected("jsonError")
            /\ firstFailure' = IF firstFailure = "none" THEN "jsonError" ELSE firstFailure
    /\ UNCHANGED << caller, category, appsPromise, fetchPromise, allPromise,
                    metadataPromise, pageVars, shuffleVars >>

\* ------------------------------------------------------- generateMetadata
NotFoundMetadata ==
    [title |-> "Category Not Found - OMI Apps",
     description |-> "The requested category could not be found."]

\* Lines 44-83: what generateMetadata returns once getCategoryData resolved.
MetadataForAnyKey(key, categoryPlugins) ==
    [title |-> "entry.title - OMI Apps Marketplace",
     browse |-> Len(categoryPlugins),
     canonical |-> key]
MetadataFor(key, categoryPlugins) ==
    IF categoryMetadata[key] = "undefined"
    THEN NotFoundMetadata
    ELSE [title |-> "entry.title - OMI Apps Marketplace",
          browse |-> Len(categoryPlugins),
          canonical |-> key]

\* const { categoryPlugins } = await getCategoryData(category);
GenerateMetadataResume ==
    /\ caller = "generateMetadata"
    /\ metadataPromise = Pending
    /\ dataPromise.state = "fulfilled"
    /\ metadataPromise' = Fulfilled(MetadataFor(category, dataPromise.value.categoryPlugins))
    /\ UNCHANGED << caller, category, pc, appsPromise, fetchPromise, allPromise,
                    firstFailure, dataPromise, pageVars, shuffleVars >>

\* The await throws: generateMetadata rejects with getCategoryData's reason.
GenerateMetadataThrow ==
    /\ caller = "generateMetadata"
    /\ metadataPromise = Pending
    /\ dataPromise.state = "rejected"
    /\ metadataPromise' = Rejected(dataPromise.reason)
    /\ UNCHANGED << caller, category, pc, appsPromise, fetchPromise, allPromise,
                    firstFailure, dataPromise, pageVars, shuffleVars >>

\* ----------------------------------------------------------- CategoryPage
\* Lines 111-123 and 161-163: the buckets and the first section's heading.
CategoryPageRender ==
    /\ caller = "CategoryPage"
    /\ pagePromise = Pending
    /\ dataPromise.state = "fulfilled"
    /\ LET categoryPlugins == dataPromise.value.categoryPlugins
       IN  /\ mostPopular' = MostPopular(categoryPlugins)
           /\ allApps' = AllApps(categoryPlugins)
           /\ newOrRecentApps' \in GetNewOrRecentApps(categoryPlugins)
           /\ heading' = Heading(newOrRecentApps')
    /\ pagePromise' = Fulfilled("markup")
    /\ UNCHANGED << caller, category, pc, appsPromise, fetchPromise, allPromise,
                    firstFailure, dataPromise, metadataPromise, shuffleVars >>

CategoryPageThrow ==
    /\ caller = "CategoryPage"
    /\ pagePromise = Pending
    /\ dataPromise.state = "rejected"
    /\ pagePromise' = Rejected(dataPromise.reason)
    /\ UNCHANGED << caller, category, pc, appsPromise, fetchPromise, allPromise,
                    firstFailure, dataPromise, metadataPromise, newOrRecentApps,
                    mostPopular, allApps, heading, shuffleVars >>

\* ------------------------------------------------------------ shuffleArray
ShuffleArrayCall ==
    /\ pc = "shuffleArray"
    /\ \E js \in RandomChoices(Len(array)) :
          /\ newArray' = ShuffleArray(array, js)
          /\ array' = ArgumentAfterShuffle(array, js)
    /\ pc' = "shuffled"
    /\ UNCHANGED << caller, category, appsPromise, fetchPromise, allPromise,
                    firstFailure, dataPromise, metadataPromise, pageVars >>

\* ------------------------------------------------------- specifications
\* One request: the framework calls generateMetadata or CategoryPage.
Init ==
    /\ caller \in {"generateMetadata", "CategoryPage"}
    /\ category \in CategoryKeys
    /\ pc = "start"
    /\ appsPromise = [state |-> "idle"]
    /\ fetchPromise = [state |-> "idle"]
    /\ allPromise = [state |-> "idle"]
    /\ firstFailure = "none"
    /\ dataPromise = Pending
    /\ metadataPromise = Pending
    /\ pagePromise = Pending
    /\ NoBuckets
    /\ array = << >>
    /\ newArray = << >>

Next ==
    \/ GetCategoryDataCall
    \/ AppsFulfil
    \/ AppsReject
    \/ FetchFulfil
    \/ FetchReject
    \/ StatsJson
    \/ GenerateMetadataResume
    \/ GenerateMetadataThrow
    \/ CategoryPageRender
    \/ CategoryPageThrow

Spec == Init /\ [][Next]_vars

\* CategoryPage at the point where getCategoryData has returned a category
\* list of up to MaxLen plugins.
InitPage ==
    /\ caller = "CategoryPage"
    /\ category = "listed"
    /\ pc = "returned"
    /\ \E plugins \in PluginLists(MaxLen) :
          /\ appsPromise = Fulfilled(plugins)
          /\ allPromise = Fulfilled(<< plugins, "json" >>)
          /\ dataPromise = Fulfilled([categoryPlugins |-> plugins, stats |-> "stats"])
    /\ fetchPromise = Fulfilled("json")
    /\ firstFailure = "none"
    /\ metadataPromise = Pending
    /\ pagePromise = Pending
    /\ NoBuckets
    /\ array = << >>
    /\ newArray = << >>

NextPage == CategoryPageRender

SpecPage == InitPage /\ [][NextPage]_vars

\* shuffleArray applied to every array of up to MaxShuffleLen plugins.
InitShuffle ==
    /\ caller = "CategoryPage"
    /\ category = "listed"
    /\ pc = "shuffleArray"
    /\ appsPromise = [state |-> "idle"]
    /\ fetchPromise = [state |-> "idle"]
    /\ allPromise = [state |-> "idle"]
    /\ firstFailure = "none"
    /\ dataPromise = Pending
    /\ metadataPromise = Pending
    /\ pagePromise = Pending
    /\ NoBuckets
    /\ array \in PluginLists(MaxShuffleLen)
    /\ newArray = << >>

NextShuffle == ShuffleArrayCall

SpecShuffle == InitShuffle /\ [][NextShuffle]_vars

\* =============================================================== claims
Range(s) == { s[k] : k \in 1..Len(s) }

Distinct(s) == \A a, b \in 1..Len(s) : a # b => s[a] # s[b]

Occurrences(x, s) == Cardinality({ k \in 1..Len(s) : s[k] = x })

SameMultiset(s, t) ==
    /\ Len(s) = Len(t)
    /\ \A x \in Range(s) \cup Range(t) : Occurrences(x, s) = Occurrences(x, t)

NonIncreasing(s) == \A k \in 1..(Len(s) - 1) : s[k].installs >= s[k + 1].installs

\* The position of plugin x in the fetched list: its identifier.
PositionIn(fetched, x) == IF fetched[x.id] = x THEN x.id ELSE 0

\* Equal installs keep the order they have in the fetched list.
TiesInFetchedOrder(s, fetched) ==
    \A a \in 1..Len(s) : \A b \in (a + 1)..Len(s) :
        s[a].installs = s[b].installs
            => PositionIn(fetched, s[a]) < PositionIn(fetched, s[b])

\* Of two plugins with equal installs, one kept and one left out, the kept
\* one is the earlier in the fetched list.
TieAtCutOffKeepsEarlier(kept, fetched) ==
    \A a \in 1..Len(kept) : \A b \in 1..Len(fetched) :
        (kept[a].installs = fetched[b].installs /\ \A c \in 1..Len(kept) : kept[c] # fetched[b])
            => PositionIn(fetched, kept[a]) < b

ZeroCount(s) == Cardinality({ k \in 1..Len(s) : s[k].installs = 0 })

\* The list getCategoryData returned (read only where it has returned).
Fetched == dataPromise.value.categoryPlugins

Rendered == pagePromise.state = "fulfilled"

\* C1: getCategoryData issues both calls together; it returns
\* {categoryPlugins, stats} only if the apps call and the fetch both
\* succeeded and the stats body parsed; once either call has rejected it has
\* rejected, with the failure that occurred first, and it never returns one
\* value without the other.
C1_FailFastNoPartialResult ==
    /\ pc # "start" => appsPromise.state # "idle" /\ fetchPromise.state # "idle"
    /\ dataPromise.state = "fulfilled" =>
          /\ appsPromise.state = "fulfilled"
          /\ fetchPromise.state = "fulfilled"
          /\ fetchPromise.value = "json"
          /\ dataPromise.value = [categoryPlugins |-> appsPromise.value, stats |-> "stats"]
    /\ (appsPromise.state = "rejected" \/ fetchPromise.state = "rejected") =>
          dataPromise.state = "rejected"
    /\ dataPromise.state = "rejected" =>
          /\ firstFailure # "none"
          /\ dataPromise.reason = firstFailure

\* Both calls rejected, the fetch first, and getCategoryData rejected with
\* the fetch's failure.
C1_Witness ==
    /\ appsPromise.state = "rejected"
    /\ fetchPromise.state = "rejected"
    /\ firstFailure = "fetchError"
    /\ dataPromise = Rejected("fetchError")

\* C2: with at least four zero-install plugins in the list, the new/recent
\* bucket is exactly 4 pairwise-distinct entries of the list, all with
\* installs = 0, whatever the shuffle draws.
C2_FourDistinctZeroInstalls ==
    (Rendered /\ ZeroCount(Fetched) >= 4) =>
        /\ Len(newOrRecentApps) = 4
        /\ Distinct(newOrRecentApps)
        /\ Range(newOrRecentApps) \subseteq Range(Fetched)
        /\ \A x \in Range(newOrRecentApps) : x.installs = 0

\* Five zero-install plugins and two others: four of the five are shown.
C2_Witness ==
    /\ Rendered
    /\ ZeroCount(Fetched) = 5
    /\ Len(Fetched) = 7
    /\ Len(newOrRecentApps) = 4
    /\ newOrRecentApps[1].id > newOrRecentApps[2].id

\* C3: with fewer than four zero-install plugins, the new/recent bucket is
\* some ordering of the min(4, n) lowest-install plugins: distinct entries
\* of the list, and no plugin left out has fewer installs than one shown.
C3_LowestInstallsFallback ==
    (Rendered /\ ZeroCount(Fetched) < 4) =>
        /\ Len(newOrRecentApps) = Min(4, Len(Fetched))
        /\ Distinct(newOrRecentApps)
        /\ Range(newOrRecentApps) \subseteq Range(Fetched)
        /\ \A y \in Range(Fetched) \ Range(newOrRecentApps) :
              \A x \in Range(newOrRecentApps) : y.installs >= x.installs

\* Two zero-install plugins among six: both are shown with two others, in an
\* order other than the sorted one.
C3_Witness ==
    /\ Rendered
    /\ ZeroCount(Fetched) = 2
    /\ Len(Fetched) = 6
    /\ Len(newOrRecentApps) = 4
    /\ newOrRecentApps[1].installs > newOrRecentApps[4].installs

\* C4: the new/recent bucket never has more than 4 entries, and has exactly
\* 4 whenever the list has at least 4 plugins, in both branches.
C4_NewOrRecentLength ==
    Rendered =>
        /\ Len(newOrRecentApps) <= 4
        /\ Len(Fetched) >= 4 => Len(newOrRecentApps) = 4

\* The zero-install branch with more than four candidates.
C4_Witness ==
    /\ Rendered
    /\ ZeroCount(Fetched) = 6
    /\ Len(newOrRecentApps) = 4

\* C5: mostPopular is empty for a list of 6 or fewer plugins; for a longer
\* list it is the first six entries of allApps, so it has length 6, is
\* sorted non-increasing by installs, and no plugin outside it has more
\* installs than one inside it.
C5_MostPopularTopSix ==
    Rendered =>
        /\ Len(Fetched) <= 6 => mostPopular = << >>
        /\ Len(Fetched) > 6 =>
              /\ Len(mostPopular) = 6
              /\ mostPopular = SubSeq(allApps, 1, 6)
              /\ NonIncreasing(mostPopular)
              /\ Range(mostPopular) \subseteq Range(Fetched)
              /\ \A y \in Range(Fetched) \ Range(mostPopular) :
                    \A x \in Range(mostPopular) : y.installs <= x.installs

\* Seven plugins whose least installed one is not last in the list.
C5_Witness ==
    /\ Rendered
    /\ Len(Fetched) = 7
    /\ Len(mostPopular) = 6
    /\ Fetched[1].installs < Fetched[7].installs
    /\ ZeroCount(Fetched) = 1

\* C6: allApps is a permutation of the fetched list (same multiset) in
\* which every entry has at least the installs of the entry after it.
C6_AllAppsSortedPermutation ==
    Rendered =>
        /\ SameMultiset(allApps, Fetched)
        /\ NonIncreasing(allApps)

\* A list that is not already sorted.
C6_Witness ==
    /\ Rendered
    /\ Len(Fetched) >= 5
    /\ allApps # Fetched
    /\ Fetched[1].installs < Fetched[2].installs

\* C9: ties on installs keep the fetched order in allApps, in mostPopular
\* and in the lowest-install candidates before shuffling; where a tie
\* straddles a cut-off (sixth most popular, fourth lowest) the plugin
\* earlier in the fetched list is the one selected.
C9_TiesStableByFetchedOrder ==
    /\ ~Rendered =>
          /\ TiesInFetchedOrder(LowestInstalls(Fetched), Fetched)
          /\ TieAtCutOffKeepsEarlier(LowestInstalls(Fetched), Fetched)
    /\ Rendered =>
          /\ TiesInFetchedOrder(allApps, Fetched)
          /\ TiesInFetchedOrder(mostPopular, Fetched)
          /\ Len(Fetched) > 6 => TieAtCutOffKeepsEarlier(mostPopular, Fetched)
          /\ ZeroCount(Fetched) < 4 => TieAtCutOffKeepsEarlier(newOrRecentApps, Fetched)

\* Seven plugins, two with zero installs: the sixth and seventh most popular
\* tie, and so do the fourth and fifth lowest.
C9_Witness ==
    /\ Rendered
    /\ Len(Fetched) = 7
    /\ ZeroCount(Fetched) = 2
    /\ allApps[6].installs = allApps[7].installs
    /\ mostPopular[6].id < allApps[7].id
    /\ \E x \in Range(newOrRecentApps) : \E y \in Range(Fetched) \ Range(newOrRecentApps) :
          x.installs = y.installs

\* C10: the first heading is 'New This Week' exactly when the fetched list
\* holds a plugin with installs = 0, and 'Recently Added' otherwise (the
\* empty category included), in both branches and for every shuffle.
C10_HeadingIffZeroInstallExists ==
    Rendered =>
        /\ heading = "New This Week" <=> ZeroCount(Fetched) >= 1
        /\ heading = "Recently Added" <=> ZeroCount(Fetched) = 0

\* The fallback branch with one zero-install plugin among more than four.
C10_Witness ==
    /\ Rendered
    /\ ZeroCount(Fetched) = 1
    /\ Len(Fetched) = 6
    /\ heading = "New This Week"
    /\ newOrRecentApps[1].installs # 0

\* Every rearrangement of the array s.
PermutationsOf(s) == { [k \in 1..Len(s) |-> s[f[k]]] : f \in Permutations(1..Len(s)) }

\* C7: for every sequence of random choices j in 0..i, shuffleArray returns
\* an array of the same length and the same multiset of elements as its
\* argument; every permutation of the argument is returned for some
\* sequence of choices; and the argument array itself is left as it was.
C7_ShuffleIsPermutation ==
    /\ [](/\ pc = "shuffled" => SameMultiset(newArray, array)
          /\ pc = "shuffleArray" =>
                \A perm \in PermutationsOf(array) :
                    \E js \in RandomChoices(Len(array)) : ShuffleArray(array, js) = perm)
    /\ [][array' = array]_vars

\* A four-element array returned in reverse order.
C7_Witness ==
    /\ pc = "shuffled"
    /\ Len(array) = 4
    /\ \A k \in 1..4 : newArray[k] = array[5 - k]

\* C8 as stated: for a key without a categoryMetadata entry, generateMetadata
\* returns the not-found title and description in every run, those where
\* the category data fetch rejects included.
C8_NotFoundInEveryRun ==
    (/\ caller = "generateMetadata"
     /\ categoryMetadata[category] = "undefined"
     /\ dataPromise.state # "pending")
        => metadataPromise \in {Pending, Fulfilled(NotFoundMetadata)}

\* C8 amended: for a key without a categoryMetadata entry, generateMetadata
\* returns the not-found title and description when getCategoryData
\* resolves, and rejects with getCategoryData's failure when it rejects.
C8_NotFoundWhenDataResolves ==
    (/\ caller = "generateMetadata"
     /\ categoryMetadata[category] = "undefined"
     /\ metadataPromise # Pending)
        => \/ /\ dataPromise.state = "fulfilled"
              /\ metadataPromise = Fulfilled(NotFoundMetadata)
           \/ /\ dataPromise.state = "rejected"
              /\ metadataPromise = Rejected(dataPromise.reason)

\* An unlisted key whose data arrived: the not-found metadata is returned.
C8_Witness ==
    /\ caller = "generateMetadata"
    /\ category = "unlisted"
    /\ dataPromise.state = "fulfilled"
    /\ Len(Fetched) = 2
    /\ metadataPromise = Fulfilled(NotFoundMetadata)

====
